---- MODULE Spec2Model ----
(***************************************************************************)
(* Model of excel_template_merger.py: ExcelTemplateMerger.merge and the    *)
(* helpers it calls (clean, read_excel_auto, _load_mapping,                *)
(* _probe_header_row, _fuzzy_rename, _process_workbook).                   *)
(*                                                                         *)
(* A text is a sequence of one-character strings.  A workbook file is a    *)
(* record [readable, sheets]; a sheet is a grid: a sequence of rows, each  *)
(* a sequence of cells; a cell is a text or NA (an empty cell, NaN).       *)
(* A DataFrame is a record [columns, rows].                                *)
(***************************************************************************)
EXTENDS Integers, Sequences, FiniteSets, TLC

VARIABLES
    mapfile,     \* input: the first sheet of the mapping workbook (a grid)
    template,    \* input: the first sheet of the template workbook (a grid)
    sources,     \* input: the source workbooks, in the order given
    probe_rows,  \* self.probe_rows
    pc,          \* position in merge: "load", "sources", "done", "failed"
    err,         \* the exception merge raised, "" if none
    tpl_cols,    \* merge's tpl_cols
    fwd,         \* merge's fwd
    rev,         \* merge's rev
    si,          \* index of the next source workbook of merge's loop
    frames,      \* merge's frames
    log,         \* one record per sheet _process_workbook has decided
    output,      \* what to_excel has written (the empty frame if nothing)
    written      \* how many times to_excel was called

vars == <<mapfile, template, sources, probe_rows, pc, err, tpl_cols, fwd, rev,
          si, frames, log, output, written>>

inputs == <<mapfile, template, sources, probe_rows>>

-----------------------------------------------------------------------------
(* Bounds of the model *)

MaxMapRows == 3
MaxRows == 3
MaxProbe == 2
MaxCols == 3
MaxSources == 2

probe_rows_default == 200

-----------------------------------------------------------------------------
(* Texts *)

NA == <<"<NA>">>

WS == {" ", "\n"}

IsInk(ch) == ch \notin WS

clean(s) == SelectSeq(s, IsInk)

\* Python's "a in b" on strings
IsSub(a, b) ==
    \E i \in 0..(Len(b) - Len(a)) : SubSeq(b, i + 1, i + Len(a)) = a

Range(s) == {s[i] : i \in 1..Len(s)}

Min(a, b) == IF a < b THEN a ELSE b

Digits == <<"0", "1", "2", "3", "4", "5", "6", "7", "8", "9">>

Digit(n) == Digits[n + 1]

\* dict assignment d[k] = v
Put(d, k, v) == [x \in (DOMAIN d) \cup {k} |-> IF x = k THEN v ELSE d[x]]

EmptyDict == [x \in {} |-> <<>>]

EmptyFrame == [columns |-> <<>>, rows |-> <<>>]

RECURSIVE Flatten(_)
Flatten(ss) == IF ss = <<>> THEN <<>> ELSE Head(ss) \o Flatten(Tail(ss))

\* the orders in which a Python set of these keys can be iterated
Orders(S) ==
    {o \in [1..Cardinality(S) -> S] : \A i, j \in DOMAIN o : i # j => o[i] # o[j]}

-----------------------------------------------------------------------------
(* read_excel_auto *)

\* pandas' column label of cell j (1-based) of the header row
HeaderLabel(row, j) ==
    IF row[j] = NA THEN <<"Unnamed:", " ", Digit(j - 1)>>
    ELSE LET n == Cardinality({i \in 1..(j - 1) : row[i] = row[j]})
         IN IF n = 0 THEN row[j] ELSE row[j] \o <<".", Digit(n)>>

\* read_excel_auto(path, header=hdr, sheet_name=sheet): row hdr (0-based) of
\* the grid gives the column labels, the rows below it are the data
read_excel_auto(grid, header) ==
    IF header >= Len(grid) THEN EmptyFrame
    ELSE [columns |-> [j \in 1..Len(grid[header + 1]) |-> HeaderLabel(grid[header + 1], j)],
          rows |-> SubSeq(grid, header + 2, Len(grid))]

\* DataFrame.fillna("") on one cell
fillna(c) == IF c = NA THEN <<>> ELSE c

\* head that returns every row, whatever n
head_unbounded(grid, n) == grid

\* DataFrame.head(n)
head(grid, n) == SubSeq(grid, 1, Min(n, Len(grid)))

-----------------------------------------------------------------------------
(* _load_mapping *)

RECURSIVE LoadRows(_, _, _, _, _)
LoadRows(rows, i, tpl, f, r) ==
    IF i > Len(rows) THEN [tpl_cols |-> tpl, fwd |-> f, rev |-> r]
    ELSE LET t == clean(fillna(rows[i][1]))
             s == clean(fillna(rows[i][2]))
         IN IF t = <<>> \/ s = <<>>
            THEN LoadRows(rows, i + 1, tpl, f, r)
            ELSE LoadRows(rows, i + 1,
                          IF t \in Range(tpl) THEN tpl ELSE Append(tpl, t),
                          Put(f, s, t), Put(r, t, s))

_load_mapping_header_none(file) ==
    IF file = <<>> \/ Len(file[1]) < 2
    THEN [error |-> "ValueError: columns", tpl_cols |-> <<>>, fwd |-> EmptyDict, rev |-> EmptyDict]
    ELSE LET m == LoadRows(file, 1, <<>>, EmptyDict, EmptyDict)
         IN IF DOMAIN m.fwd = {}
            THEN [error |-> "ValueError: pairs", tpl_cols |-> <<>>, fwd |-> EmptyDict, rev |-> EmptyDict]
            ELSE [error |-> "", tpl_cols |-> m.tpl_cols, fwd |-> m.fwd, rev |-> m.rev]

_load_mapping(file) ==
    LET df == read_excel_auto(file, 0)
    IN IF Len(df.columns) < 2
       THEN [error |-> "ValueError: columns", tpl_cols |-> <<>>, fwd |-> EmptyDict, rev |-> EmptyDict]
       ELSE LET m == LoadRows(df.rows, 1, <<>>, EmptyDict, EmptyDict)
            IN IF DOMAIN m.fwd = {}
               THEN [error |-> "ValueError: pairs", tpl_cols |-> <<>>, fwd |-> EmptyDict, rev |-> EmptyDict]
               ELSE [error |-> "", tpl_cols |-> m.tpl_cols, fwd |-> m.fwd, rev |-> m.rev]

-----------------------------------------------------------------------------
(* _probe_header_row *)

RowHits(row, keys) ==
    \E j \in 1..Len(row) : row[j] # NA /\ clean(row[j]) \in keys

RECURSIVE ProbeFrom(_, _, _)
ProbeFrom(df_probe, keys, i) ==
    IF i > Len(df_probe) THEN -1
    ELSE IF RowHits(df_probe[i], keys) THEN i - 1
    ELSE ProbeFrom(df_probe, keys, i + 1)

_probe_header_row(df_probe, keys) == ProbeFrom(df_probe, keys, 1)

-----------------------------------------------------------------------------
(* _fuzzy_rename *)

\* c == k or k in c or c in k
Fuzzy(c, k) == c = k \/ IsSub(k, c) \/ IsSub(c, k)

\* next((k for k in pool if ...), None): None is the empty text, as falsy as it
FirstMatch(c, pool) ==
    LET hit == {i \in 1..Len(pool) : Fuzzy(c, pool[i])}
    IN IF hit = {} THEN <<>> ELSE pool[CHOOSE i \in hit : \A j \in hit : i <= j]

\* DataFrame.rename(columns=ren)
rename(df, ren) ==
    [df EXCEPT !.columns = [j \in 1..Len(df.columns) |->
        IF df.columns[j] \in DOMAIN ren THEN ren[df.columns[j]] ELSE df.columns[j]]]

\* _fuzzy_rename that gives a tie to the reverse direction
_fuzzy_rename_tie_reverse(df, fwd_, rev_, pool_fwd, pool_rev) ==
    LET cols == df.columns
        kf(col) == FirstMatch(clean(col), pool_fwd)
        kr(col) == FirstMatch(clean(col), pool_rev)
        ren_fwd == [col \in {c \in Range(cols) : kf(c) # <<>>} |-> fwd_[kf(col)]]
        ren_rev == [col \in {c \in Range(cols) : kr(c) # <<>>} |-> rev_[kr(col)]]
        hit_fwd == Cardinality({j \in 1..Len(cols) : kf(cols[j]) # <<>>})
        hit_rev == Cardinality({j \in 1..Len(cols) : kr(cols[j]) # <<>>})
    IN IF hit_fwd > hit_rev THEN [df |-> rename(df, ren_fwd), hits |-> hit_fwd]
       ELSE IF hit_rev # 0 THEN [df |-> rename(df, ren_rev), hits |-> hit_rev]
       ELSE [df |-> df, hits |-> 0]

\* _fuzzy_rename that tries the forward direction only
_fuzzy_rename_forward_only(df, fwd_, rev_, pool_fwd, pool_rev) ==
    LET cols == df.columns
        kf(col) == FirstMatch(clean(col), pool_fwd)
        ren_fwd == [col \in {c \in Range(cols) : kf(c) # <<>>} |-> fwd_[kf(col)]]
        hit_fwd == Cardinality({j \in 1..Len(cols) : kf(cols[j]) # <<>>})
    IN IF hit_fwd # 0 THEN [df |-> rename(df, ren_fwd), hits |-> hit_fwd]
       ELSE [df |-> df, hits |-> 0]

\* pool_fwd and pool_rev are set(fwd) and set(rev) in the order the run iterates them
_fuzzy_rename(df, fwd_, rev_, pool_fwd, pool_rev) ==
    LET cols == df.columns
        kf(col) == FirstMatch(clean(col), pool_fwd)
        kr(col) == FirstMatch(clean(col), pool_rev)
        ren_fwd == [col \in {c \in Range(cols) : kf(c) # <<>>} |-> fwd_[kf(col)]]
        ren_rev == [col \in {c \in Range(cols) : kr(c) # <<>>} |-> rev_[kr(col)]]
        hit_fwd == Cardinality({j \in 1..Len(cols) : kf(cols[j]) # <<>>})
        hit_rev == Cardinality({j \in 1..Len(cols) : kr(cols[j]) # <<>>})
    IN IF hit_fwd >= hit_rev /\ hit_fwd # 0 THEN [df |-> rename(df, ren_fwd), hits |-> hit_fwd]
       ELSE IF hit_rev # 0 THEN [df |-> rename(df, ren_rev), hits |-> hit_rev]
       ELSE [df |-> df, hits |-> 0]

-----------------------------------------------------------------------------
(* DataFrame operations of _process_workbook *)

RECURSIVE SortedSeq(_)
SortedSeq(S) ==
    IF S = {} THEN <<>>
    ELSE LET m == CHOOSE x \in S : \A y \in S : x <= y
         IN <<m>> \o SortedSeq(S \ {m})

\* first_idx that keeps every column, repeated labels included
first_idx_all(columns) == [j \in 1..Len(columns) |-> j]

\* sorted(np.unique(df.columns, return_index=True)[1])
first_idx(columns) ==
    SortedSeq({j \in 1..Len(columns) : \A i \in 1..(j - 1) : columns[i] # columns[j]})

\* df.iloc[:, idx]
iloc(df, idx) ==
    [columns |-> [n \in 1..Len(idx) |-> df.columns[idx[n]]],
     rows |-> [r \in 1..Len(df.rows) |-> [n \in 1..Len(idx) |-> df.rows[r][idx[n]]]]]

\* df[col] = pd.NA for a col that is no column of df
AddNA(df, col) ==
    [columns |-> Append(df.columns, col),
     rows |-> [r \in 1..Len(df.rows) |-> Append(df.rows[r], NA)]]

RECURSIVE Pad(_, _, _)
Pad(df, cols, i) ==
    IF i > Len(cols) THEN df
    ELSE Pad(IF cols[i] \in Range(df.columns) THEN df ELSE AddNA(df, cols[i]), cols, i + 1)

\* df[names]: for each name, every column of df labelled so
Select(df, names) ==
    iloc(df, Flatten([n \in 1..Len(names) |->
                        SortedSeq({j \in 1..Len(df.columns) : df.columns[j] = names[n]})]))

-----------------------------------------------------------------------------
(* _process_workbook *)

Rejected(src, sheet, why, hdr, cols) ==
    [frames |-> <<>>,
     entry |-> [src |-> src, sheet |-> sheet, status |-> why, hdr |-> hdr, hits |-> 0,
                columns |-> cols, renamed |-> cols]]

\* the body of the loop over the sheets of one workbook
ProcessSheet(src, sheet, probe_df, tpl_cols_, fwd_, rev_, probe, pool_fwd, pool_rev) ==
    LET hdr == _probe_header_row(head(probe_df, probe), (DOMAIN fwd_) \cup (DOMAIN rev_))
    IN IF hdr = -1 THEN Rejected(src, sheet, "no header", hdr, <<>>)
       ELSE
         LET df0 == read_excel_auto(probe_df, hdr)
             df1 == [df0 EXCEPT !.columns = [j \in 1..Len(df0.columns) |-> clean(df0.columns[j])]]
             fr == _fuzzy_rename(df1, fwd_, rev_, pool_fwd, pool_rev)
         IN IF fr.hits = 0 THEN Rejected(src, sheet, "zero hits", hdr, df1.columns)
            ELSE
              LET df2 == iloc(fr.df, first_idx(fr.df.columns))
                  df3 == Pad(df2, tpl_cols_, 1)
              IN [frames |-> <<Select(df3, tpl_cols_)>>,
                  entry |-> [src |-> src, sheet |-> sheet, status |-> "accepted",
                             hdr |-> hdr, hits |-> fr.hits,
                             columns |-> df1.columns, renamed |-> fr.df.columns]]

RECURSIVE ProcessSheets(_, _, _, _, _, _, _, _, _)
ProcessSheets(src, sheets, j, tpl_cols_, fwd_, rev_, probe, pool_fwd, pool_rev) ==
    IF j > Len(sheets) THEN [frames |-> <<>>, log |-> <<>>]
    ELSE LET one == ProcessSheet(src, j, sheets[j], tpl_cols_, fwd_, rev_, probe, pool_fwd, pool_rev)
             rest == ProcessSheets(src, sheets, j + 1, tpl_cols_, fwd_, rev_, probe, pool_fwd, pool_rev)
         IN [frames |-> one.frames \o rest.frames, log |-> <<one.entry>> \o rest.log]

\* _process_workbook that catches the read error and skips the workbook
_process_workbook_skips_unreadable(src, wb, tpl_cols_, fwd_, rev_, probe, pool_fwd, pool_rev) ==
    LET r == ProcessSheets(src, wb.sheets, 1, tpl_cols_, fwd_, rev_, probe, pool_fwd, pool_rev)
    IN [error |-> "", frames |-> r.frames, log |-> r.log]

_process_workbook(src, wb, tpl_cols_, fwd_, rev_, probe, pool_fwd, pool_rev) ==
    IF ~wb.readable
    THEN [error |-> "read_excel_auto", frames |-> <<>>, log |-> <<>>]
    ELSE LET r == ProcessSheets(src, wb.sheets, 1, tpl_cols_, fwd_, rev_, probe, pool_fwd, pool_rev)
         IN [error |-> "", frames |-> r.frames, log |-> r.log]

\* concat taking the frames last first
concat_reversed(fs) ==
    [columns |-> fs[1].columns,
     rows |-> Flatten([i \in 1..Len(fs) |-> fs[Len(fs) + 1 - i].rows])]

\* pd.concat(frames, ignore_index=True) of frames that all have the same columns
concat(fs) ==
    [columns |-> fs[1].columns, rows |-> Flatten([i \in 1..Len(fs) |-> fs[i].rows])]

-----------------------------------------------------------------------------
(* merge, one action per step *)

\* LoadMapping followed by a header probe of the template
LoadMapping_probes_template ==
    /\ pc = "load"
    /\ LET m == _load_mapping(mapfile)
           e == IF m.error # "" THEN m.error
                ELSE IF _probe_header_row(head(template, probe_rows),
                                          (DOMAIN m.fwd) \cup (DOMAIN m.rev)) = -1
                     THEN "ConfigError: template"
                     ELSE ""
       IN /\ tpl_cols' = m.tpl_cols
          /\ fwd' = m.fwd
          /\ rev' = m.rev
          /\ err' = e
          /\ pc' = IF e = "" THEN "sources" ELSE "failed"
    /\ UNCHANGED <<inputs, si, frames, log, output, written>>

\* line 123: tpl_cols, fwd, rev = self._load_mapping(mapping_path)
LoadMapping ==
    /\ pc = "load"
    /\ LET m == _load_mapping(mapfile)
       IN /\ tpl_cols' = m.tpl_cols
          /\ fwd' = m.fwd
          /\ rev' = m.rev
          /\ err' = m.error
          /\ pc' = IF m.error = "" THEN "sources" ELSE "failed"
    /\ UNCHANGED <<inputs, si, frames, log, output, written>>

\* lines 127-128: one turn of the loop over source_paths
ProcessWorkbook ==
    /\ pc = "sources"
    /\ si <= Len(sources)
    /\ \E pool_fwd \in Orders(DOMAIN fwd), pool_rev \in Orders(DOMAIN rev) :
         LET r == _process_workbook(si, sources[si], tpl_cols, fwd, rev, probe_rows,
                                    pool_fwd, pool_rev)
         IN /\ frames' = frames \o r.frames
            /\ log' = log \o r.log
            /\ err' = r.error
            /\ pc' = IF r.error = "" THEN "sources" ELSE "failed"
            /\ si' = IF r.error = "" THEN si + 1 ELSE si
    /\ UNCHANGED <<inputs, tpl_cols, fwd, rev, output, written>>

\* Finish without the check of line 130
Finish_writes_without_frames ==
    /\ pc = "sources"
    /\ si > Len(sources)
    /\ pc' = "done"
    /\ output' = IF frames = <<>> THEN EmptyFrame ELSE concat(frames)
    /\ written' = written + 1
    /\ err' = err
    /\ UNCHANGED <<inputs, tpl_cols, fwd, rev, si, frames, log>>

\* lines 130-139: after the loop
Finish ==
    /\ pc = "sources"
    /\ si > Len(sources)
    /\ IF frames = <<>>
       THEN /\ pc' = "failed"
            /\ err' = "RuntimeError: no match"
            /\ UNCHANGED <<output, written>>
       ELSE /\ pc' = "done"
            /\ output' = concat(frames)
            /\ written' = written + 1
            /\ err' = err
    /\ UNCHANGED <<inputs, tpl_cols, fwd, rev, si, frames, log>>

Next == LoadMapping \/ ProcessWorkbook \/ Finish

-----------------------------------------------------------------------------
(* Inputs *)

T1 == <<"t">>
T2 == <<"u">>
S1 == <<"d">>
S2 == <<"a", "b">>
Label == <<"h">>

\* mapping files: row 0 holds the labels of the two columns
MapPlain == <<<<Label, Label>>, <<T1, S1>>, <<T2, S2>>>>
MapOverlap == <<<<Label, Label>>, <<T1, S1>>, <<T2, <<"d", "x">>>>>>
MapNoPairs == <<<<T1, S1>>>>
MapOneColumn == <<<<Label>>, <<T1>>>>

Start ==
    /\ pc = "load"
    /\ err = ""
    /\ tpl_cols = <<>>
    /\ fwd = EmptyDict
    /\ rev = EmptyDict
    /\ si = 1
    /\ frames = <<>>
    /\ log = <<>>
    /\ output = EmptyFrame
    /\ written = 0

SeqsUpTo(S, n) == UNION {[1..k -> S] : k \in 0..n}

\* a sheet: an optional title row, the header row, then ndata rows of data
DataRow(tag, r, w) == [c \in 1..w |-> <<tag, Digit(r), Digit(c)>>]

MkSheet(title, header, ndata, tag) ==
    (IF title THEN <<[c \in 1..Len(header) |-> IF c = 1 THEN <<"x">> ELSE NA]>> ELSE <<>>)
    \o <<header>>
    \o [r \in 1..ndata |-> DataRow(tag, r, Len(header))]

Readable(sheets) == [readable |-> TRUE, sheets |-> sheets]

Unreadable == [readable |-> FALSE, sheets |-> <<>>]

TemplateSheets ==
    {MkSheet(FALSE, <<T1, T2>>, 0, "p"), <<<<<<"x">>, NA>>>>}

\* the whole run: a few kinds of sheet, any arrangement of them in workbooks
PipeSheets ==
    {MkSheet(FALSE, <<S1, S2>>, 1, "p"),
     MkSheet(TRUE, <<S2, <<"x">>, <<" ", "d">>>>, 2, "q"),
     MkSheet(FALSE, <<<<"x">>, NA>>, 1, "r")}

\* a source file: unreadable, or a workbook of one or two sheets
Workbooks ==
    {Unreadable} \cup {Readable(<<a>>) : a \in PipeSheets}
                 \cup {Readable(<<a, b>>) : a, b \in PipeSheets}

Init ==
    /\ Start
    /\ mapfile \in {MapPlain, MapNoPairs, MapOneColumn}
    /\ template \in TemplateSheets
    /\ probe_rows = probe_rows_default
    /\ sources \in SeqsUpTo(Workbooks, MaxSources)

Spec == Init /\ [][Next]_vars

\* one sheet, every header row over HeaderCells
HeaderCells ==
    {NA, <<" ">>, S1, <<" ", "d">>, <<"d", "x">>, <<"a">>, S2, T1, T2}

InitSheet ==
    /\ Start
    /\ mapfile \in {MapPlain, MapOverlap}
    /\ template = MkSheet(FALSE, <<T1, T2>>, 0, "p")
    /\ probe_rows = probe_rows_default
    /\ \E title \in BOOLEAN, header \in SeqsUpTo(HeaderCells, MaxCols) \ {<<>>} :
         sources = <<Readable(<<MkSheet(title, header, 1, "p")>>)>>

SpecSheet == InitSheet /\ [][Next]_vars

\* one sheet, every grid over ProbeCells, every probe window
ProbeRowSet ==
    {<<a, b>> : a \in {NA, <<"d", " ">>, <<"d", "x">>}, b \in {NA, <<"a">>, <<"u">>}}

InitProbe ==
    /\ Start
    /\ mapfile = MapPlain
    /\ template = MkSheet(FALSE, <<T1, T2>>, 0, "p")
    /\ probe_rows \in 0..MaxProbe
    /\ \E grid \in SeqsUpTo(ProbeRowSet, MaxRows) :
         sources = <<Readable(<<grid>>)>>

SpecProbe == InitProbe /\ [][Next]_vars

\* every mapping file over these cells
TplCells == {<<" ">>, T1, <<"t", " ">>, T2}

SrcCells == {NA, S1, <<"a">>}

InitMapping ==
    /\ Start
    /\ mapfile \in SeqsUpTo({<<a, b>> : a \in TplCells, b \in SrcCells}, MaxMapRows)
                     \cup SeqsUpTo({<<a>> : a \in TplCells}, MaxMapRows)
    /\ template = MkSheet(FALSE, <<T1, T2>>, 0, "p")
    /\ probe_rows = probe_rows_default
    /\ sources = <<Readable(<<MkSheet(FALSE, <<S1, T2>>, 1, "p")>>)>>

SpecMapping == InitMapping /\ [][Next]_vars

-----------------------------------------------------------------------------
(* Vocabulary of the properties *)

Keys == (DOMAIN fwd) \cup (DOMAIN rev)

MappingFailed == err \in {"ValueError: columns", "ValueError: pairs"}

SheetOf(e) == sources[e.src].sheets[e.sheet]

\* the rows of the sheet below its located header row
DataRows(e) == SubSeq(SheetOf(e), e.hdr + 2, Len(SheetOf(e)))

IsAccepted(e) == e.status = "accepted"

Accepted == SelectSeq(log, IsAccepted)

AllSheets == {<<i, j>> \in (1..Len(sources)) \X (1..2) : j <= Len(sources[i].sheets)}

Logged == {<<log[n].src, log[n].sheet>> : n \in 1..Len(log)}

EncounterOrder ==
    \A a, b \in 1..Len(log) :
        a < b => \/ log[a].src < log[b].src
                 \/ log[a].src = log[b].src /\ log[a].sheet < log[b].sheet

RECURSIVE SumLen(_)
SumLen(ss) == IF ss = <<>> THEN 0 ELSE Len(Head(ss)) + SumLen(Tail(ss))

\* a data row of an accepted sheet as the template schema sees it: under each
\* template name the cell of the first column renamed to it, null if none
ExpectedRow(e, row) ==
    [n \in 1..Len(tpl_cols) |->
        LET js == {j \in 1..Len(e.renamed) : e.renamed[j] = tpl_cols[n]}
        IN IF js = {} THEN NA ELSE row[CHOOSE j \in js : \A i \in js : j <= i]]

ExpectedRows(e) == [r \in 1..Len(DataRows(e)) |-> ExpectedRow(e, DataRows(e)[r])]

-----------------------------------------------------------------------------
(* C1 *)

\* C1: to_excel is called at most once, and only when every sheet of every
\* source workbook has been decided and at least one frame was accepted; when
\* every source has been processed and every sheet was rejected, merge has
\* failed with the no-match error and nothing was written.
C1_WriteOnceAfterAll ==
    /\ written \in {0, 1}
    /\ written = 0 => output = EmptyFrame
    /\ written = 1 =>
          /\ pc = "done"
          /\ si = Len(sources) + 1
          /\ Logged = AllSheets
          /\ Accepted # <<>>
          /\ frames # <<>>
    /\ (pc \in {"done", "failed"} /\ ~MappingFailed /\ si > Len(sources) /\ Accepted = <<>>) =>
          /\ pc = "failed"
          /\ err = "RuntimeError: no match"
          /\ written = 0

C1_Witness ==
    /\ written = 1
    /\ Len(sources) = 2
    /\ \E n \in 1..Len(log) : log[n].status = "no header"

C1_WitnessNoMatch ==
    /\ pc = "failed"
    /\ err = "RuntimeError: no match"
    /\ Len(log) >= 2

-----------------------------------------------------------------------------
(* C5 *)

\* C5: the rows written are the data rows of the accepted sheets, aligned to
\* the template schema, in encounter order (workbook, then sheet, then row);
\* their number is the sum of the accepted sheets' data-row counts, so a
\* rejected sheet contributes no row.
C5_RowsInEncounterOrder ==
    pc = "done" =>
        /\ EncounterOrder
        /\ output.rows = Flatten([k \in 1..Len(Accepted) |-> ExpectedRows(Accepted[k])])
        /\ Len(output.rows) = SumLen([k \in 1..Len(Accepted) |-> DataRows(Accepted[k])])

C5_Witness ==
    /\ pc = "done"
    /\ Len(Accepted) >= 2
    /\ Len(log) > Len(Accepted)
    /\ Accepted[1].src # Accepted[Len(Accepted)].src
    /\ DataRows(Accepted[1]) # DataRows(Accepted[Len(Accepted)])

-----------------------------------------------------------------------------
(* C8 *)

\* some non-null cell of row i (0-based) of the grid is, with its whitespace
\* removed, exactly a key
Qualifies(grid, i) ==
    \E j \in 1..Len(grid[i + 1]) :
        /\ grid[i + 1][j] # NA
        /\ \E k \in Keys : clean(grid[i + 1][j]) = k

Window(grid) == 0..(Min(probe_rows, Len(grid)) - 1)

-----------------------------------------------------------------------------
(* C4 *)

\* C4: every frame the sheet processor appends has exactly the columns of the
\* template schema, each once and in schema order, and every row of it has
\* one cell per schema column.
C4_FramesHaveSchemaColumns ==
    \A k \in 1..Len(frames) :
        /\ frames[k].columns = tpl_cols
        /\ \A a, b \in 1..Len(frames[k].columns) :
              a # b => frames[k].columns[a] # frames[k].columns[b]
        /\ \A r \in 1..Len(frames[k].rows) : Len(frames[k].rows[r]) = Len(tpl_cols)

\* an accepted sheet with two columns renamed to one template name, one of
\* them a column that carried the template name already
C4_Witness ==
    /\ frames # <<>>
    /\ \E n \in 1..Len(log) :
          /\ log[n].status = "accepted"
          /\ Len(log[n].columns) # Len(tpl_cols)
          /\ \E a, b \in 1..Len(log[n].renamed) :
                /\ a # b
                /\ log[n].renamed[a] = log[n].renamed[b]
                /\ log[n].renamed[a] \in Range(tpl_cols)
                /\ log[n].columns[a] = log[n].renamed[a]

-----------------------------------------------------------------------------
(* C9 *)

\* the number of columns that fuzzily match some key of the dictionary d
HitCount(cols, d) ==
    Cardinality({j \in 1..Len(cols) : \E k \in DOMAIN d : Fuzzy(cols[j], k)})

\* new is cols renamed through d: a column no key matches keeps its name, any
\* other takes the target of a key that matches it
RenamedBy(cols, new, d) ==
    /\ Len(new) = Len(cols)
    /\ \A j \in 1..Len(cols) :
          IF \E k \in DOMAIN d : Fuzzy(cols[j], k)
          THEN \E k \in DOMAIN d : Fuzzy(cols[j], k) /\ new[j] = d[k]
          ELSE new[j] = cols[j]

Reconciled == {n \in 1..Len(log) : log[n].hdr # -1}

\* C9: the forward and the reverse hit counts are taken over the same columns
\* and one direction's rename is applied: the reverse one when its count is
\* strictly greater, the forward one when its count is at least the reverse
\* count and positive, none (hit count 0) when both are 0; the hit count
\* returned is the count of the direction applied.
C9_DirectionByHitCount ==
    \A n \in Reconciled :
        LET cols == log[n].columns
            hf == HitCount(cols, fwd)
            hr == HitCount(cols, rev)
        IN /\ hr > hf => log[n].hits = hr /\ RenamedBy(cols, log[n].renamed, rev)
           /\ (hf >= hr /\ hf > 0) => log[n].hits = hf /\ RenamedBy(cols, log[n].renamed, fwd)
           /\ (hf = 0 /\ hr = 0) => log[n].hits = 0 /\ log[n].renamed = cols

\* a tie of positive counts, where the forward rename differs from the reverse
C9_Witness ==
    \E n \in Reconciled :
        LET cols == log[n].columns
        IN /\ HitCount(cols, fwd) = HitCount(cols, rev)
           /\ HitCount(cols, fwd) > 0
           /\ ~RenamedBy(cols, log[n].renamed, rev)

C9_WitnessReverse ==
    \E n \in Reconciled :
        LET cols == log[n].columns
        IN /\ HitCount(cols, rev) > HitCount(cols, fwd)
           /\ HitCount(cols, fwd) > 0

-----------------------------------------------------------------------------
(* C10 *)

\* C10: a sheet whose header row the probe located is reconciled with at
\* least one hit and is accepted: no sheet is rejected for zero hits.
C10_LocatedHeaderHits ==
    \A n \in 1..Len(log) :
        /\ log[n].status # "zero hits"
        /\ log[n].hdr # -1 => log[n].hits >= 1 /\ log[n].status = "accepted"

\* a header row located through a reverse key only, below a title row
C10_Witness ==
    \E n \in 1..Len(log) :
        /\ log[n].hdr = 1
        /\ log[n].status = "accepted"
        /\ HitCount(log[n].columns, fwd) = 0

-----------------------------------------------------------------------------
(* C3 *)

IsPermutationOfSchema(cols) ==
    /\ Len(cols) = Len(tpl_cols)
    /\ Range(cols) = Range(tpl_cols)

\* C3: for a sheet whose normalized column names are a permutation of the
\* template schema, the hit count is the schema size, every column is renamed
\* to the template name it carries, and the frame holds under each template
\* name the values of the sheet column of that name.
C3_PermutationKeepsValues ==
    \A n \in Reconciled :
        IsPermutationOfSchema(log[n].columns) =>
            /\ log[n].hits = Len(tpl_cols)
            /\ log[n].renamed = log[n].columns
            /\ log[n].status = "accepted"
            /\ \A k \in 1..Len(frames) :
                  \A r \in 1..Len(frames[k].rows), c \in 1..Len(tpl_cols) :
                      \E j \in 1..Len(log[n].columns) :
                          /\ log[n].columns[j] = tpl_cols[c]
                          /\ frames[k].rows[r][c] = DataRows(log[n])[r][j]

\* C3, the part the code keeps: the hit count is the schema size
C3_PermutationHitCount ==
    \A n \in Reconciled :
        IsPermutationOfSchema(log[n].columns) => log[n].hits = Len(tpl_cols)

-----------------------------------------------------------------------------
(* C2 *)

\* C2 as claimed: an error raised while reading a source workbook never
\* aborts merge; every source workbook is still processed and the frames
\* accepted reach the output.
C2_SourceErrorsIsolated ==
    /\ err # "read_excel_auto"
    /\ (pc \in {"done", "failed"} /\ ~MappingFailed) => si = Len(sources) + 1
    /\ (pc \in {"done", "failed"} /\ frames # <<>>) => written = 1

\* C2 as the code has it: the error of reading a source workbook leaves
\* merge: merge stops at that workbook, no later workbook is processed, the
\* frames accepted before it are dropped and nothing is written.
C2_ReadErrorAborts ==
    /\ \A i \in 1..Len(sources) : ~sources[i].readable => si <= i
    /\ (pc = "failed" /\ ~MappingFailed /\ si <= Len(sources)) =>
          err = "read_excel_auto" /\ ~sources[si].readable
    /\ err = "read_excel_auto" =>
          /\ pc = "failed"
          /\ si <= Len(sources)
          /\ ~sources[si].readable
          /\ written = 0
          /\ output = EmptyFrame
          /\ \A n \in 1..Len(log) : log[n].src < si

\* the read error after a frame was accepted
C2_Witness ==
    /\ err = "read_excel_auto"
    /\ frames # <<>>
    /\ si = Len(sources)

-----------------------------------------------------------------------------
(* C6 *)

TemplateHeader == _probe_header_row(head(template, probe_rows), Keys)

ValidRow(row) ==
    /\ Len(row) >= 2
    /\ clean(fillna(row[1])) # <<>>
    /\ clean(fillna(row[2])) # <<>>

\* the mapping file has two columns and a valid pair below its row 0
MappingUsable ==
    /\ mapfile # <<>>
    /\ Len(mapfile[1]) >= 2
    /\ \E i \in 2..Len(mapfile) : ValidRow(mapfile[i])

\* C6 as claimed: when no row of the template inside the probe window matches
\* a mapping key, merge fails before any source is processed.
C6_TemplateProbedFirst ==
    (pc # "load" /\ ~MappingFailed /\ TemplateHeader = -1) =>
        /\ pc = "failed"
        /\ si = 1
        /\ log = <<>>
        /\ written = 0

\* C6 as the code has it: merge never reads the template. It fails only with
\* a mapping-file error (exactly when the mapping file is unusable), a source
\* read error or the no-match error; with a usable mapping file and readable
\* sources every sheet is processed and the output is written exactly when a
\* frame was accepted, whatever the template holds.
C6_TemplateNeverRead ==
    /\ pc # "load" => (MappingFailed <=> ~MappingUsable)
    /\ pc = "failed" => err \in {"ValueError: columns", "ValueError: pairs",
                                 "read_excel_auto", "RuntimeError: no match"}
    /\ (pc \in {"done", "failed"} /\ MappingUsable
           /\ \A i \in 1..Len(sources) : sources[i].readable) =>
          /\ Logged = AllSheets
          /\ (pc = "done") = (Accepted # <<>>)
          /\ written = (IF Accepted # <<>> THEN 1 ELSE 0)

\* the output written although the template has no header row
C6_Witness ==
    /\ pc = "done"
    /\ written = 1
    /\ TemplateHeader = -1

-----------------------------------------------------------------------------
(* C7 *)

TplOf(i) == clean(fillna(mapfile[i][1]))

SrcOf(i) == clean(fillna(mapfile[i][2]))

\* C7 as claimed: every row of the mapping file, row 0 included, whose two
\* first cells are non-empty after normalization is recorded.
C7_EveryRowRecorded ==
    pc # "load" =>
        \A i \in 1..Len(mapfile) :
            ValidRow(mapfile[i]) =>
                /\ err = ""
                /\ SrcOf(i) \in DOMAIN fwd
                /\ TplOf(i) \in DOMAIN rev
                /\ TplOf(i) \in Range(tpl_cols)

\* the rows below row 0 that hold a pair
Pairs == {i \in 2..Len(mapfile) : ValidRow(mapfile[i])}

\* C7 as the code has it: row 0 is read as the header row and records
\* nothing; the rows below it that hold a pair are recorded, a later row
\* replacing an earlier one with the same key, and the schema lists the
\* template names once each in the order of their first rows; nothing else is
\* recorded, and without such a row the load fails.
C7_RowsBelowHeaderRecorded ==
    (pc # "load" /\ mapfile # <<>> /\ Len(mapfile[1]) >= 2) =>
        /\ DOMAIN fwd = {SrcOf(i) : i \in Pairs}
        /\ DOMAIN rev = {TplOf(i) : i \in Pairs}
        /\ Range(tpl_cols) = {TplOf(i) : i \in Pairs}
        /\ \A i \in Pairs :
              /\ (\A j \in Pairs : j > i => SrcOf(j) # SrcOf(i)) => fwd[SrcOf(i)] = TplOf(i)
              /\ (\A j \in Pairs : j > i => TplOf(j) # TplOf(i)) => rev[TplOf(i)] = SrcOf(i)
        /\ \A a, b \in 1..Len(tpl_cols) :
              a < b => /\ tpl_cols[a] # tpl_cols[b]
                       /\ \E i \in Pairs :
                             /\ TplOf(i) = tpl_cols[a]
                             /\ \A j \in Pairs : TplOf(j) = tpl_cols[b] => i < j
        /\ (Pairs = {}) = (err = "ValueError: pairs")

\* row 0 holds a pair that is not recorded, and the load succeeds
C7_Witness ==
    /\ pc # "load"
    /\ err = ""
    /\ ValidRow(mapfile[1])
    /\ SrcOf(1) \notin DOMAIN fwd
    /\ TplOf(1) \notin DOMAIN rev
    /\ Len(mapfile) = 3
    /\ Len(tpl_cols) = 1

====
